---- MODULE Spec2Model ----
(***************************************************************************)
(* Model of server.js: the speech-to-text relay.                           *)
(*                                                                         *)
(* Every /transcribe request is an async handler whose continuations run   *)
(* between awaits; one action models one continuation (from the return of  *)
(* one awaited call to the issue of the next).  The remote store executes  *)
(* a call in a step of its own, some time after the call was issued, and   *)
(* its answer reaches the handler in a later step; steps of other requests *)
(* may come in between.  A request passes cors() and the body parsers,    *)
(* which answer some requests themselves, and is then counted by the       *)
(* limiter; the multipart body of a /transcribe request is read before its *)
(* handler runs.                                                           *)
(* All continuations run on one thread, which a continuation holds until   *)
(* it reaches an await or returns.  CRUD requests and /transcribe requests *)
(* all run concurrently.                                                   *)
(***************************************************************************)
EXTENDS Integers, Sequences, FiniteSets, TLC

\* ---------------------------------------------------------------- bounds
MaxTranscribe == 2          \* concurrently running /transcribe requests
MaxCrud == 2                \* concurrently running list and delete requests
MaxAddrs == 1               \* client addresses the requests come from
MaxPending == 1             \* unfinished snapshots of a job of a prompt provider

\* ------------------------------------------------------ program constants
MAX_RETRIES == 20
\* line 33: max
RATE_MAX == 100
\* line 34: message; the limiter answers it as plain text with its default status
LimitMessage == "Too many requests, please try again later."
LimitStatus == 429
\* line 175: res.status(500)
ErrorStatus == 500

TReqs == 1..MaxTranscribe
\* list and delete requests, numbered in their order of arrival
CReqs == 1..MaxCrud
\* client addresses; the limiter counts the requests of each
Addrs == 1..MaxAddrs

\* JavaScript null / undefined
NULL == "<null>"
\* req.file as multer leaves it: undefined (no "audio" part), or a buffer
NoFile == "<undefined>"
Files == {NoFile, "zero-bytes", "audio-bytes"}
\* result texts a completed snapshot may carry
Texts == {NULL, "", "hello world"}
\* statuses of a job snapshot
Statuses == {"queued", "processing", "completed", "failed"}
\* what a status fetch may return: a transport error or a snapshot
FetchOutcomes ==
    {[ok |-> FALSE, status |-> NULL, text |-> NULL]}
    \cup {[ok |-> TRUE, status |-> s, text |-> NULL] : s \in Statuses \ {"completed"}}
    \cup {[ok |-> TRUE, status |-> "completed", text |-> t] : t \in Texts}

AxiosError == "Request failed"
StoreError == "store unavailable"

\* the identifier the provider assigns to the job a request created
JobIdOf(r) == 100 + r


NoResponse == [status |-> 0, error |-> NULL, transcription |-> NULL, text |-> NULL]
NoRow == [transcription |-> NULL, created_at |-> -1]
NotObserved == [status |-> "none", text |-> NULL]
\* an id column that holds SQL NULL; the store assigns ids from 1
NullId == 0
\* the thread runs no code: the event loop is idle
NoOne == -1
\* no answer of the store has come in yet
Pending == "<pending>"
NoReply == [error |-> Pending, data |-> <<>>]
NoCalls == [upload |-> 0, create |-> 0, wait |-> 0, fetch |-> 0, insert |-> 0, respond |-> 0]

VARIABLES
    pc,               \* position of each /transcribe handler
    uploadBody,       \* buffer carried by the upload call in flight
    transcriptId,     \* line 82
    attempts,         \* line 87
    transcriptResult, \* line 88
    fetchUrl,         \* job named by the status fetch in flight
    insertRow,        \* row carried by the insert call in flight
    response,         \* the response sent to the caller
    calls,            \* history: calls issued and responses sent, per request
    observed,         \* history: terminal status a fetch observed
    failedCall,       \* history: the remote call that failed
    store,            \* table "transcriptions", in insertion order
    nextId,           \* next identifier the store assigns
    inserted,         \* history: the inserts the store executed, by record id
    insertReply,      \* the store's answer to the insert in flight: its error
    now,              \* last reading of the clock
    crudPc,           \* position of each CRUD handler
    crudOp,           \* the endpoint each CRUD request called
    crudId,           \* line 146: req.params.id of a delete by id
    crudReply,        \* the store's answer to the query in flight
    crudAfter,        \* history: a delete of all had been answered with success
                      \* when the request arrived
    hits,             \* the limiter's count of requests in the current window,
                      \* kept up to the first count that is refused
    otherStatus,      \* status of the last answer to GET / or to a path
                      \* without a route
    crudResponse,     \* the response sent to each CRUD request
    env,              \* process.env: the three required configuration values
    proc,             \* the process: starting, listening or exited
    connected,        \* whether the caller of each /transcribe request is connected
    thread            \* the party whose code holds the only JavaScript thread

tvars == <<pc, uploadBody, transcriptId, attempts, transcriptResult, fetchUrl,
           insertRow, response, calls, observed, failedCall>>
svars == <<store, nextId, inserted, insertReply>>
cvars == <<crudPc, crudOp, crudId, crudReply, crudAfter, crudResponse>>
lvars == <<hits, otherStatus>>
pvars == <<env, proc, connected, thread>>
vars == <<tvars, svars, now, cvars, pvars, lvars>>

NoCrudResponse ==
    [status |-> 0, error |-> NULL, message |-> NULL, data |-> <<>>, text |-> NULL]

\* a configuration value: absent, empty or set
EnvValues == {NULL, "", "value"}
EnvKeys == {"ASSEMBLYAI_API_KEY", "SUPABASE_URL", "SUPABASE_ANON_KEY"}

Init ==
    /\ env \in [EnvKeys -> EnvValues]
    /\ proc = "starting"
    /\ connected = [r \in TReqs |-> TRUE]
    /\ thread = NoOne
    /\ pc = [r \in TReqs |-> "idle"]
    /\ uploadBody = [r \in TReqs |-> NoFile]
    /\ transcriptId = [r \in TReqs |-> 0]
    /\ attempts = [r \in TReqs |-> 0]
    /\ transcriptResult = [r \in TReqs |-> NULL]
    /\ fetchUrl = [r \in TReqs |-> 0]
    /\ insertRow = [r \in TReqs |-> NoRow]
    /\ response = [r \in TReqs |-> NoResponse]
    /\ calls = [r \in TReqs |-> NoCalls]
    /\ observed = [r \in TReqs |-> NotObserved]
    /\ failedCall = [r \in TReqs |-> "none"]
    /\ store = <<>>
    /\ nextId = 1
    /\ inserted = <<>>
    /\ insertReply = [r \in TReqs |-> Pending]
    /\ now = 0
    /\ crudPc = [c \in CReqs |-> "idle"]
    /\ crudOp = [c \in CReqs |-> "none"]
    /\ crudId = [c \in CReqs |-> NullId]
    /\ crudReply = [c \in CReqs |-> NoReply]
    /\ crudAfter = [c \in CReqs |-> FALSE]
    /\ hits = [a \in Addrs |-> 0]
    /\ otherStatus = 0
    /\ crudResponse = [c \in CReqs |-> NoCrudResponse]

\* ---------------------------------------------------------------- startup
\* variant: the process exits only when all three values are missing
ConfigMissingAll(e) ==
    /\ (e["ASSEMBLYAI_API_KEY"] = NULL \/ e["ASSEMBLYAI_API_KEY"] = "")
    /\ (e["SUPABASE_URL"] = NULL \/ e["SUPABASE_URL"] = "")
    /\ (e["SUPABASE_ANON_KEY"] = NULL \/ e["SUPABASE_ANON_KEY"] = "")
\* line 17: !ASSEMBLYAI_API_KEY || !SUPABASE_URL || !SUPABASE_ANON_KEY
ConfigMissing(e) ==
    \/ (e["ASSEMBLYAI_API_KEY"] = NULL \/ e["ASSEMBLYAI_API_KEY"] = "")
    \/ (e["SUPABASE_URL"] = NULL \/ e["SUPABASE_URL"] = "")
    \/ (e["SUPABASE_ANON_KEY"] = NULL \/ e["SUPABASE_ANON_KEY"] = "")

\* lines 12-20 and 179-181: the configuration check, then app.listen
Start ==
    /\ proc = "starting"
    /\ proc' = IF ConfigMissing(env) THEN "exited" ELSE "listening"
    /\ UNCHANGED <<tvars, svars, now, cvars, env, connected, thread, lvars>>

\* a caller other than a /transcribe request, as a party the event loop serves
CrudClient == 0

\* a handler runs only in a process that reached app.listen
Serving == proc = "listening"

\* variant: the wait is a blocking sleep, which holds the only thread
WaitHoldsThread(r) == r
\* line 91: await new Promise(resolve => setTimeout(resolve, 5000)): the
\* handler is suspended until the timer fires and holds the thread no longer
WaitHolds(r) == NoOne
\* the continuation of request r has run to an await or to its return: the
\* thread is released, unless the continuation ended by starting a wait that
\* holds it
Yield(r) == thread' = IF pc'[r] = "waiting" THEN WaitHolds(r) ELSE NoOne
\* the event loop can run a continuation of party r: no other party's code holds
\* the thread
EventLoopFree(r) == thread \in {NoOne, r}

\* the caller of request r closes the connection, while its body is read or
\* later; no handler listens for it
Disconnect(r) ==
    /\ Serving
    /\ pc[r] \notin {"idle", "done"}
    /\ connected[r]
    /\ connected' = [connected EXCEPT ![r] = FALSE]
    /\ UNCHANGED <<tvars, svars, now, cvars, env, proc, thread, lvars>>

\* ------------------------------------------- middleware before the limiter
\* lines 27-28: the body of a request as the parsers find it: one they reject,
\* a multipart form, or any other body, which they let through
Bodies == {"malformed", "multipart", "other"}
\* line 27: express.json() fails to parse the body and the request goes to the
\* global error handler without reaching the limiter
BodyRejected(body) == body = "malformed"
\* the message of the error express.json() raises for a body cut short
JsonError == "Expected property name or '}' in JSON at position 1"
\* line 26: the status cors() answers to an OPTIONS request
PreflightStatus == 204

\* ------------------------------------------------------------ limiter
\* lines 31-36: the limiter counts the request, then refuses it when the count
\* of its address in the current window exceeds max. Every count above max is
\* refused alike, so the count is kept up to max + 1
Hit(a) == hits' = [hits EXCEPT ![a] = IF @ > RATE_MAX THEN @ ELSE @ + 1]
Limited(a) == hits[a] + 1 > RATE_MAX
LimitResponse ==
    [status |-> LimitStatus, error |-> NULL, transcription |-> NULL,
     text |-> LimitMessage]
CrudLimitResponse ==
    [status |-> LimitStatus, error |-> NULL, message |-> NULL, data |-> <<>>,
     text |-> LimitMessage]

\* lines 31-36: the window of 15 minutes ends; the counts start again
WindowReset ==
    /\ Serving
    /\ \E a \in Addrs : hits[a] > 0
    /\ hits' = [a \in Addrs |-> 0]
    /\ UNCHANGED <<tvars, svars, now, cvars, pvars, otherStatus>>

\* lines 27-46 and 173-176: GET /, the health check: rejected by the body
\* parser, or counted and answered at once
Root(a) ==
    /\ Serving /\ EventLoopFree(CrudClient)
    /\ \E body \in Bodies :
          IF BodyRejected(body)
          THEN otherStatus' = ErrorStatus /\ UNCHANGED hits
          ELSE /\ Hit(a)
               /\ otherStatus' = IF Limited(a) THEN LimitStatus ELSE 200
    /\ UNCHANGED <<tvars, svars, now, cvars, pvars>>

\* line 26: cors() answers an OPTIONS request to any path itself; the request
\* reaches neither the limiter nor a route
Preflight ==
    /\ Serving /\ EventLoopFree(CrudClient)
    /\ otherStatus' = PreflightStatus
    /\ UNCHANGED <<tvars, svars, now, cvars, pvars, hits>>

\* the status express answers to a request no route matches
NotFoundStatus == 404
\* lines 27-36: a request to a path or method without a route is rejected by
\* the body parser, or counted by the limiter as well; no handler runs for it
Unrouted(a) ==
    /\ Serving /\ EventLoopFree(CrudClient)
    /\ \E body \in Bodies :
          IF BodyRejected(body)
          THEN otherStatus' = ErrorStatus /\ UNCHANGED hits
          ELSE /\ Hit(a)
               /\ otherStatus' = IF Limited(a) THEN LimitStatus ELSE NotFoundStatus
    /\ UNCHANGED <<tvars, svars, now, cvars, pvars>>

\* ------------------------------------------------- global error handler
\* lines 173-176
ErrorHandler(msg) ==
    [status |-> ErrorStatus,
     error |-> IF msg = NULL \/ msg = "" THEN "Internal Server Error" ELSE msg,
     transcription |-> NULL, text |-> NULL]

\* catch (error) { next(error) }: the handler ends with the error response
Throw(r, msg) ==
    /\ pc' = [pc EXCEPT ![r] = "done"]
    /\ response' = [response EXCEPT ![r] = ErrorHandler(msg)]
    /\ calls' = [calls EXCEPT ![r] = [@ EXCEPT !.respond = @ + 1]]

Count(r, what) == [calls EXCEPT ![r] = [@ EXCEPT ![what] = @ + 1]]

\* variant: the call is configured never to reject, so a failure goes unnoticed
RejectsNever(ok) == FALSE
\* an awaited axios call rejects, and the await throws, when the call failed
Rejects(ok) == ~ok
\* variant: the store's error is not looked at
HasErrorIgnored(error) == FALSE
\* lines 118, 135, 149, 163: if (error)
HasError(error) == error # NULL

\* ------------------------------------------------------ POST /transcribe
\* line 54: !req.file
FileMissing(f) == f = NoFile

\* lines 27-56: the request arrives. The body parser rejects it, or the
\* limiter counts it; when it is let through, upload.single("audio") starts to
\* read a multipart body, and passes any other body on at once to the handler,
\* which finds no file
Receive(r) ==
    /\ Serving /\ EventLoopFree(r)
    /\ pc[r] = "idle"
    /\ \E body \in Bodies :
          IF BodyRejected(body)
          THEN Throw(r, JsonError) /\ UNCHANGED hits
          ELSE \E a \in Addrs :
                  /\ Hit(a)
                  /\ IF Limited(a)
                     THEN /\ pc' = [pc EXCEPT ![r] = "done"]
                          /\ response' = [response EXCEPT ![r] = LimitResponse]
                          /\ calls' = Count(r, "respond")
                     ELSE IF body = "multipart"
                     THEN /\ pc' = [pc EXCEPT ![r] = "receiving"]
                          /\ UNCHANGED <<response, calls>>
                     ELSE Throw(r, "No file uploaded")
    /\ UNCHANGED <<uploadBody, transcriptId, attempts, transcriptResult, fetchUrl,
                   insertRow, observed, failedCall, svars, now, cvars>>
    /\ Yield(r)
    /\ UNCHANGED <<env, proc, connected, otherStatus>>

\* the errors upload.single("audio") reports: a file part under another field
\* name, a body that ends before its form does
MulterErrors == {"Unexpected field", "Unexpected end of form"}

\* lines 50 and 173-176: the body cannot be read as a form with one "audio"
\* file; the error goes to the global error handler and the handler of
\* /transcribe is not run
MulterError(r, msg) ==
    /\ Serving /\ EventLoopFree(r)
    /\ pc[r] = "receiving"
    /\ Throw(r, msg)
    /\ UNCHANGED <<uploadBody, transcriptId, attempts, transcriptResult, fetchUrl,
                   insertRow, observed, failedCall, svars, now, cvars>>
    /\ Yield(r)
    /\ UNCHANGED <<env, proc, connected, lvars>>

\* lines 50-70: the body has been read and the handler runs; the file check;
\* the upload is issued
Transcribe(r, f) ==
    /\ Serving /\ EventLoopFree(r)
    /\ pc[r] = "receiving"
    /\ IF FileMissing(f)
       THEN /\ Throw(r, "No file uploaded")
            /\ UNCHANGED uploadBody
       ELSE /\ pc' = [pc EXCEPT ![r] = "uploading"]
            /\ uploadBody' = [uploadBody EXCEPT ![r] = f]
            /\ calls' = Count(r, "upload")
            /\ UNCHANGED response
    /\ UNCHANGED <<transcriptId, attempts, transcriptResult, fetchUrl, insertRow,
                   observed, failedCall, svars, now, cvars>>
    /\ Yield(r)
    /\ UNCHANGED <<env, proc, connected, lvars>>

\* lines 61-80: the upload returns; the job creation is issued
UploadReturn(r, ok) ==
    /\ Serving /\ EventLoopFree(r)
    /\ pc[r] = "uploading"
    /\ uploadBody' = [uploadBody EXCEPT ![r] = NoFile]
    /\ failedCall' = [failedCall EXCEPT ![r] = IF ok THEN @ ELSE "upload"]
    /\ IF Rejects(ok)
       THEN Throw(r, AxiosError)
       ELSE /\ pc' = [pc EXCEPT ![r] = "creating"]
            /\ calls' = Count(r, "create")
            /\ UNCHANGED response
    /\ UNCHANGED <<transcriptId, attempts, transcriptResult, fetchUrl, insertRow,
                   observed, svars, now, cvars>>
    /\ Yield(r)
    /\ UNCHANGED <<env, proc, connected, lvars>>

\* variant: the loop fetches first and waits afterwards
CreateReturnFetchFirst(r, ok) ==
    /\ Serving /\ EventLoopFree(r)
    /\ pc[r] = "creating"
    /\ failedCall' = [failedCall EXCEPT ![r] = IF ok THEN @ ELSE "create"]
    /\ IF Rejects(ok)
       THEN /\ Throw(r, AxiosError)
            /\ UNCHANGED <<transcriptId, attempts, transcriptResult, fetchUrl>>
       ELSE /\ transcriptId' = [transcriptId EXCEPT ![r] = JobIdOf(r)]
            /\ attempts' = [attempts EXCEPT ![r] = 0]
            /\ transcriptResult' = [transcriptResult EXCEPT ![r] = NULL]
            /\ pc' = [pc EXCEPT ![r] = "fetching"]
            /\ fetchUrl' = [fetchUrl EXCEPT ![r] = JobIdOf(r)]
            /\ calls' = Count(r, "fetch")
            /\ UNCHANGED response
    /\ UNCHANGED <<uploadBody, insertRow, observed, svars, now, cvars>>
    /\ Yield(r)
    /\ UNCHANGED <<env, proc, connected, lvars>>
\* variant: attempts is one counter shared by all requests
CreateReturnSharedAttempts(r, ok) ==
    /\ Serving /\ EventLoopFree(r)
    /\ pc[r] = "creating"
    /\ failedCall' = [failedCall EXCEPT ![r] = IF ok THEN @ ELSE "create"]
    /\ IF Rejects(ok)
       THEN /\ Throw(r, AxiosError)
            /\ UNCHANGED <<transcriptId, attempts, transcriptResult>>
       ELSE /\ transcriptId' = [transcriptId EXCEPT ![r] = JobIdOf(r)]
            /\ attempts' = [q \in TReqs |-> 0]
            /\ transcriptResult' = [transcriptResult EXCEPT ![r] = NULL]
            /\ pc' = [pc EXCEPT ![r] = "waiting"]
            /\ calls' = Count(r, "wait")
            /\ UNCHANGED response
    /\ UNCHANGED <<uploadBody, fetchUrl, insertRow, observed, svars, now, cvars>>
    /\ Yield(r)
    /\ UNCHANGED <<env, proc, connected, lvars>>
\* lines 76-91: the job creation returns; the loop is entered, the wait starts
CreateReturn(r, ok) ==
    /\ Serving /\ EventLoopFree(r)
    /\ pc[r] = "creating"
    /\ failedCall' = [failedCall EXCEPT ![r] = IF ok THEN @ ELSE "create"]
    /\ IF Rejects(ok)
       THEN /\ Throw(r, AxiosError)
            /\ UNCHANGED <<transcriptId, attempts, transcriptResult>>
       ELSE /\ transcriptId' = [transcriptId EXCEPT ![r] = JobIdOf(r)]
            /\ attempts' = [attempts EXCEPT ![r] = 0]
            /\ transcriptResult' = [transcriptResult EXCEPT ![r] = NULL]
            /\ pc' = [pc EXCEPT ![r] = "waiting"]
            /\ calls' = Count(r, "wait")
            /\ UNCHANGED response
    /\ UNCHANGED <<uploadBody, fetchUrl, insertRow, observed, svars, now, cvars>>
    /\ Yield(r)
    /\ UNCHANGED <<env, proc, connected, lvars>>

\* variant: the timer promise is never resolved
WaitDoneNeverResolves(r) == FALSE /\ UNCHANGED vars
\* lines 91-95: the timer fires; the status fetch is issued
WaitDone(r) ==
    /\ Serving /\ EventLoopFree(r)
    /\ pc[r] = "waiting"
    /\ pc' = [pc EXCEPT ![r] = "fetching"]
    /\ fetchUrl' = [fetchUrl EXCEPT ![r] = transcriptId[r]]
    /\ calls' = Count(r, "fetch")
    /\ UNCHANGED <<uploadBody, transcriptId, attempts, transcriptResult, insertRow,
                   response, observed, failedCall, svars, now, cvars>>
    /\ Yield(r)
    /\ UNCHANGED <<env, proc, connected, lvars>>

\* variant: only a null result counts as missing
FalsyNullOnly(x) == x = NULL
\* variant: the check after the loop is missing
FalsyNever(x) == FALSE
\* line 107: !transcriptResult
Falsy(x) == x = NULL \/ x = ""

\* lines 107-116: after the loop; the timeout check; the insert is issued.
\* new Date() reads the clock: time has passed since the last reading, or not
AfterLoop(r, result) ==
    IF Falsy(result)
    THEN /\ Throw(r, "Transcription polling timed out.")
         /\ UNCHANGED <<insertRow, now>>
    ELSE /\ pc' = [pc EXCEPT ![r] = "inserting"]
         /\ \E ts \in {now, now + 1} :
               /\ insertRow' = [insertRow EXCEPT ![r] =
                                   [transcription |-> result, created_at |-> ts]]
               /\ now' = ts
         /\ calls' = Count(r, "insert")
         /\ UNCHANGED response

\* variant: the loop is while (true)
LoopAgainAlways(n) == TRUE
\* variant: the loop bound is off by one
LoopAgainInclusive(n) == n <= MAX_RETRIES
\* line 90: attempts < MAX_RETRIES
LoopAgain(n) == n < MAX_RETRIES
\* variant: the handler waits for a status the provider never reports
IsCompletedAsDone(status) == status = "done"
\* line 97
IsCompleted(status) == status = "completed"
\* variant: the handler tests for another status name
IsFailedAsError(status) == status = "error"
\* line 100
IsFailed(status) == status = "failed"

\* lines 92-116: the status fetch returns
FetchReturn(r, out) ==
    /\ Serving /\ EventLoopFree(r)
    /\ pc[r] = "fetching"
    /\ fetchUrl' = [fetchUrl EXCEPT ![r] = 0]
    /\ failedCall' = [failedCall EXCEPT ![r] = IF out.ok THEN @ ELSE "fetch"]
    /\ observed' = [observed EXCEPT ![r] =
                       IF out.ok /\ out.status \in {"completed", "failed"}
                       THEN [status |-> out.status, text |-> out.text] ELSE @]
    /\ IF Rejects(out.ok)
       THEN /\ Throw(r, AxiosError)
            /\ UNCHANGED <<attempts, transcriptResult, insertRow, now>>
       ELSE IF IsCompleted(out.status)
       THEN /\ transcriptResult' = [transcriptResult EXCEPT ![r] = out.text]
            /\ AfterLoop(r, out.text)
            /\ UNCHANGED attempts
       ELSE IF IsFailed(out.status)
       THEN /\ Throw(r, "Transcription failed")
            /\ UNCHANGED <<attempts, transcriptResult, insertRow, now>>
       ELSE /\ attempts' = [attempts EXCEPT ![r] = @ + 1]
            /\ IF LoopAgain(attempts[r] + 1)
               THEN /\ pc' = [pc EXCEPT ![r] = "waiting"]
                    /\ calls' = Count(r, "wait")
                    /\ UNCHANGED <<response, insertRow, now>>
               ELSE AfterLoop(r, transcriptResult[r])
            /\ UNCHANGED transcriptResult
    /\ UNCHANGED <<uploadBody, transcriptId, svars, cvars>>
    /\ Yield(r)
    /\ UNCHANGED <<env, proc, connected, lvars>>

\* the store executes the insert of lines 114-116, or fails to; its answer
\* is on its way to the handler
InsertExec(r, ok) ==
    /\ pc[r] = "inserting"
    /\ insertReply[r] = Pending
    /\ failedCall' = [failedCall EXCEPT ![r] = IF ok THEN @ ELSE "insert"]
    /\ IF ok
       THEN /\ store' = Append(store, [id |-> nextId,
                                       transcription |-> insertRow[r].transcription,
                                       created_at |-> insertRow[r].created_at])
            /\ nextId' = nextId + 1
            /\ inserted' = Append(inserted, [by |-> r,
                                  transcription |-> insertRow[r].transcription])
            /\ insertReply' = [insertReply EXCEPT ![r] = NULL]
       ELSE /\ insertReply' = [insertReply EXCEPT ![r] = StoreError]
            /\ UNCHANGED <<store, nextId, inserted>>
    /\ UNCHANGED <<pc, uploadBody, transcriptId, attempts, transcriptResult, fetchUrl,
                   insertRow, response, calls, observed, now, cvars>>
    /\ UNCHANGED <<pvars, lvars>>

\* lines 114-121: the answer to the insert returns; the response is sent
InsertReturn(r) ==
    /\ Serving /\ EventLoopFree(r)
    /\ pc[r] = "inserting"
    /\ insertReply[r] # Pending
    /\ IF HasError(insertReply[r])
       THEN Throw(r, "Supabase Insert Error: " \o insertReply[r])
       ELSE /\ pc' = [pc EXCEPT ![r] = "done"]
            /\ response' = [response EXCEPT ![r] =
                               [status |-> 200, error |-> NULL,
                                transcription |-> transcriptResult[r], text |-> NULL]]
            /\ calls' = Count(r, "respond")
    /\ insertRow' = [insertRow EXCEPT ![r] = NoRow]
    /\ insertReply' = [insertReply EXCEPT ![r] = Pending]
    /\ UNCHANGED <<uploadBody, transcriptId, attempts, transcriptResult, fetchUrl,
                   observed, failedCall, store, nextId, inserted, now, cvars>>
    /\ Yield(r)
    /\ UNCHANGED <<env, proc, connected, lvars>>

\* a snapshot of a job that is not finished
Unfinished(out) == out.ok /\ out.status \in {"queued", "processing"}
\* what a fetch of request r may return when the provider finishes every job
\* within MaxPending polls
PromptOutcomes(r) == {out \in FetchOutcomes : Unfinished(out) => attempts[r] < MaxPending}

\* the payloads of callers that send a non-empty audio file, or none
AudioFiles == {f \in Files : f # "zero-bytes"}

\* a step of request r up to the start of its first wait, its body carrying
\* one of files
BeforeWait(r, files) ==
    \/ Receive(r)
    \/ \E msg \in MulterErrors : MulterError(r, msg)
    \/ \E f \in files : Transcribe(r, f)
    \/ \E ok \in BOOLEAN : UploadReturn(r, ok)
    \/ \E ok \in BOOLEAN : CreateReturn(r, ok)

\* a step of request r from its first wait on, its fetches returning one of
\* outs
FromWait(r, outs) ==
    \/ WaitDone(r)
    \/ \E out \in outs : FetchReturn(r, out)
    \/ \E ok \in BOOLEAN : InsertExec(r, ok)
    \/ InsertReturn(r)

\* a step of request r
TStep(r, files, outs) == BeforeWait(r, files) \/ FromWait(r, outs)

TNext == \E r \in TReqs : TStep(r, Files, FetchOutcomes)
TNextPrompt == \E r \in TReqs : TStep(r, Files, PromptOutcomes(r))
TNextAudio == \E r \in TReqs : TStep(r, AudioFiles, FetchOutcomes)

\* ------------------------------------------------------ the remote store
Bijections(n) == {p \in [1..n -> 1..n] : \A i, j \in 1..n : p[i] = p[j] => i = j}
Reorderings(s) == {[i \in 1..Len(s) |-> s[p[i]]] : p \in Bijections(Len(s))}

\* variant: ascending order
InOrderAscending(a, b) == a.created_at <= b.created_at
\* line 133: .order("created_at", { ascending: false })
InOrder(a, b) == a.created_at >= b.created_at
Ordered(d) == \A i, j \in 1..Len(d) : i < j => InOrder(d[i], d[j])
\* the results the store may give for select("*").order(...): rows with equal
\* timestamps come in an order the store chooses
SelectOrdered(s) == {d \in Reorderings(s) : Ordered(d)}

\* line 147: .delete().match({ id })
RECURSIVE KeepRows(_, _)
KeepRows(s, keep) ==
    IF s = <<>> THEN <<>>
    ELSE IF keep[Head(s).id] THEN <<Head(s)>> \o KeepRows(Tail(s), keep)
    ELSE KeepRows(Tail(s), keep)
\* variant: the filter is inverted
DeleteMatchInverted(s, id) == KeepRows(s, [i \in 0..nextId |-> i = id])
DeleteMatch(s, id) == KeepRows(s, [i \in 0..nextId |-> i # id])
\* variant: the filter is .is("id", null)
DeleteIsNull(s) == KeepRows(s, [i \in 0..nextId |-> i # NullId])
\* line 161: .delete().not("id", "is", null)
DeleteNotNull(s) == KeepRows(s, [i \in 0..nextId |-> i = NullId])

\* ------------------------------------------------------- CRUD endpoints
CrudError(prefix, msg) ==
    [status |-> ErrorStatus,
     error |-> ErrorHandler(prefix \o msg).error,
     message |-> NULL, data |-> <<>>, text |-> NULL]
CrudMessage(msg) ==
    [status |-> 200, error |-> NULL, message |-> msg, data |-> <<>>, text |-> NULL]

\* line 146: req.params.id. The ids of the records and one id of no record; an
\* id the store cannot compare with its id column makes it report an error
RequestIds == 1..nextId

\* the next CRUD request to arrive
Arrives(c) == crudPc[c] = "idle" /\ \A b \in CReqs : b < c => crudPc[b] # "idle"

\* lines 27-36 and the first continuation of a CRUD handler: the request
\* arrives; the body parser rejects it, or it passes the limiter and its query
\* is issued; the handler is suspended at its await
Arrive(c, op, id) ==
    /\ Serving /\ EventLoopFree(CrudClient)
    /\ Arrives(c)
    /\ crudOp' = [crudOp EXCEPT ![c] = op]
    /\ crudId' = [crudId EXCEPT ![c] = id]
    /\ crudAfter' = [crudAfter EXCEPT ![c] =
                         \E b \in CReqs : /\ crudPc[b] = "done"
                                          /\ crudOp[b] = "deleteAll"
                                          /\ crudResponse[b].status = 200]
    /\ \E body \in Bodies :
          IF BodyRejected(body)
          THEN /\ crudPc' = [crudPc EXCEPT ![c] = "done"]
               /\ crudResponse' = [crudResponse EXCEPT ![c] = CrudError("", JsonError)]
               /\ UNCHANGED hits
          ELSE \E a \in Addrs :
                  /\ Hit(a)
                  /\ IF Limited(a)
                     THEN /\ crudPc' = [crudPc EXCEPT ![c] = "done"]
                          /\ crudResponse' = [crudResponse EXCEPT ![c] = CrudLimitResponse]
                     ELSE /\ crudPc' = [crudPc EXCEPT ![c] = "pending"]
                          /\ UNCHANGED crudResponse
    /\ UNCHANGED <<tvars, svars, now, crudReply, pvars, otherStatus>>

\* the query of CRUD request c is in flight and the store has not executed it
InFlight(c, op) == crudPc[c] = "pending" /\ crudOp[c] = op /\ crudReply[c] = NoReply

\* the store's answer to CRUD request c is handed to its handler
Answer(c, op, resp) ==
    /\ Serving /\ EventLoopFree(CrudClient)
    /\ crudPc[c] = "pending" /\ crudOp[c] = op
    /\ crudReply[c] # NoReply
    /\ crudPc' = [crudPc EXCEPT ![c] = "done"]
    /\ crudResponse' = [crudResponse EXCEPT ![c] = resp]
    /\ crudReply' = [crudReply EXCEPT ![c] = NoReply]
    /\ UNCHANGED <<tvars, svars, now, crudOp, crudId, crudAfter>>
    /\ UNCHANGED <<pvars, lvars>>

\* lines 128-133: GET /transcriptions arrives; its select is issued
ListArrive(c) == Arrive(c, "list", NullId)

\* the store executes the select of lines 130-133, or fails to
ListExec(c, ok) ==
    /\ InFlight(c, "list")
    /\ IF ok
       THEN \E d \in SelectOrdered(store) :
               crudReply' = [crudReply EXCEPT ![c] = [error |-> NULL, data |-> d]]
       ELSE crudReply' = [crudReply EXCEPT ![c] = [error |-> StoreError, data |-> <<>>]]
    /\ UNCHANGED <<tvars, svars, now, crudPc, crudOp, crudId, crudAfter, crudResponse>>
    /\ UNCHANGED <<pvars, lvars>>

\* lines 130-140: the answer to the select returns; the response is sent
List(c) ==
    Answer(c, "list",
           IF HasError(crudReply[c].error)
           THEN CrudError("Supabase Fetch Error: ", crudReply[c].error)
           ELSE [status |-> 200, error |-> NULL, message |-> NULL,
                 data |-> crudReply[c].data, text |-> NULL])

\* lines 144-147: DELETE /transcriptions/:id arrives; its delete is issued
DeleteOneArrive(c, id) == Arrive(c, "deleteOne", id)

\* the store executes the delete of line 147, or fails to
DeleteOneExec(c, ok) ==
    /\ InFlight(c, "deleteOne")
    /\ IF ok
       THEN /\ store' = DeleteMatch(store, crudId[c])
            /\ crudReply' = [crudReply EXCEPT ![c] = [error |-> NULL, data |-> <<>>]]
       ELSE /\ crudReply' = [crudReply EXCEPT ![c] = [error |-> StoreError, data |-> <<>>]]
            /\ UNCHANGED store
    /\ UNCHANGED <<tvars, nextId, inserted, insertReply, now, crudPc, crudOp, crudId,
                   crudAfter, crudResponse>>
    /\ UNCHANGED <<pvars, lvars>>

\* lines 147-155: the answer to the delete returns; the response is sent
DeleteOne(c) ==
    Answer(c, "deleteOne",
           IF HasError(crudReply[c].error)
           THEN CrudError("Supabase Delete Error: ", crudReply[c].error)
           ELSE CrudMessage("Transcription deleted successfully"))

\* lines 159-161: DELETE /transcriptions arrives; its delete is issued
DeleteAllArrive(c) == Arrive(c, "deleteAll", NullId)

\* the store executes the delete of line 161, or fails to
DeleteAllExec(c, ok) ==
    /\ InFlight(c, "deleteAll")
    /\ IF ok
       THEN /\ store' = DeleteNotNull(store)
            /\ crudReply' = [crudReply EXCEPT ![c] = [error |-> NULL, data |-> <<>>]]
       ELSE /\ crudReply' = [crudReply EXCEPT ![c] = [error |-> StoreError, data |-> <<>>]]
            /\ UNCHANGED store
    /\ UNCHANGED <<tvars, nextId, inserted, insertReply, now, crudPc, crudOp, crudId,
                   crudAfter, crudResponse>>
    /\ UNCHANGED <<pvars, lvars>>

\* lines 161-169: the answer to the delete returns; the response is sent
DeleteAll(c) ==
    Answer(c, "deleteAll",
           IF HasError(crudReply[c].error)
           THEN CrudError("Supabase Delete Error: ", crudReply[c].error)
           ELSE CrudMessage("All transcriptions deleted successfully"))

CNext ==
    \E c \in CReqs :
        \/ ListArrive(c)
        \/ \E ok \in BOOLEAN : ListExec(c, ok)
        \/ List(c)
        \/ \E id \in RequestIds : DeleteOneArrive(c, id)
        \/ \E ok \in BOOLEAN : DeleteOneExec(c, ok)
        \/ DeleteOne(c)
        \/ DeleteAllArrive(c)
        \/ \E ok \in BOOLEAN : DeleteAllExec(c, ok)
        \/ DeleteAll(c)

\* the limiter's window, the preflight requests, the health check and the
\* requests without a route
LNext == WindowReset \/ Preflight \/ \E a \in Addrs : Root(a) \/ Unrouted(a)

Next == Start \/ TNext \/ CNext \/ LNext

\* every handler, every input
Spec == Init /\ [][Next]_vars

\* the /transcribe, list and delete handlers within one window of the
\* limiter, with a provider that finishes every job within MaxPending polls
NextPrompt == Start \/ TNextPrompt \/ CNext
SpecPrompt == Init /\ [][NextPrompt]_vars

\* the /transcribe workflow alone: no list or delete request arrives
NextTranscribe == Start \/ TNext
SpecTranscribe == Init /\ [][NextTranscribe]_vars

\* the /transcribe workflow alone, with callers that send a non-empty audio
\* file or none
NextAudio == Start \/ TNextAudio
SpecAudio == Init /\ [][NextAudio]_vars

\* the /transcribe workflow with a prompt provider, the health check and the
\* requests without a route, over the windows of the limiter
NextLimiter == Start \/ TNextPrompt \/ LNext
SpecLimiter == Init /\ [][NextLimiter]_vars

\* the /transcribe workflow alone, with callers that may disconnect
NextDisconnect == Start \/ TNext \/ \E r \in TReqs : Disconnect(r)
SpecDisconnect == Init /\ [][NextDisconnect]_vars

\* the /transcribe workflow alone, where every awaited call and timer of a
\* request eventually returns and the event loop then runs its continuation
Resume(r, outs) ==
    \/ \E ok \in BOOLEAN : UploadReturn(r, ok)
    \/ \E ok \in BOOLEAN : CreateReturn(r, ok)
    \/ FromWait(r, outs)
NextLive == Start \/ TNext
SpecLive ==
    Init /\ [][NextLive]_vars /\ \A r \in TReqs : WF_vars(Resume(r, FetchOutcomes))

\* a request whose timer has not fired yet, however long the others take
Stalled == 1
\* the store executes the query of CRUD request c and its answer is handed to
\* the handler
CrudResume(c) ==
    \/ \E ok \in BOOLEAN : ListExec(c, ok)
    \/ List(c)
    \/ \E ok \in BOOLEAN : DeleteOneExec(c, ok)
    \/ DeleteOne(c)
    \/ \E ok \in BOOLEAN : DeleteAllExec(c, ok)
    \/ DeleteAll(c)
\* all handlers with a prompt provider, where one request stays in its first
\* wait (line 91) and every awaited call and timer of the other requests
\* eventually returns
NextStalled ==
    \/ Start
    \/ BeforeWait(Stalled, Files)
    \/ \E r \in TReqs \ {Stalled} : TStep(r, Files, PromptOutcomes(r))
    \/ CNext
SpecStalled ==
    /\ Init /\ [][NextStalled]_vars
    /\ \A r \in TReqs \ {Stalled} : WF_vars(Resume(r, PromptOutcomes(r)))
    /\ \A c \in CReqs : WF_vars(CrudResume(c))

\* ===================================================================
\* Properties
\* ===================================================================
TimedOutResponse ==
    [status |-> 500, error |-> "Transcription polling timed out.", transcription |-> NULL,
     text |-> NULL]
FailedResponse ==
    [status |-> 500, error |-> "Transcription failed", transcription |-> NULL, text |-> NULL]
\* the inserts the store executed for request r
InsertsBy(r) == {i \in 1..Len(inserted) : inserted[i].by = r}
NonEmptyText(t) == t # NULL /\ t # ""

\* C1: a /transcribe request without an audio file is answered 400; every other
\* failure of any endpoint is answered 500; both carry an error message. A
\* request the limiter refused reached no endpoint and is left out.
C1_MissingFile400Others500 ==
    /\ \A r \in TReqs :
          (pc[r] = "done" /\ response[r].status # 200 /\ response[r] # LimitResponse) =>
             /\ NonEmptyText(response[r].error)
             /\ response[r].status =
                   IF response[r].error = "No file uploaded" THEN 400 ELSE 500
    /\ \A c \in CReqs :
          (crudResponse[c].status \notin {0, 200} /\ crudResponse[c] # CrudLimitResponse) =>
             crudResponse[c].status = 500 /\ NonEmptyText(crudResponse[c].error)

\* C2: for a missing or empty (zero-byte) audio payload no remote call is made:
\* no upload call ever carries an absent or empty buffer.
C2_NoRemoteCallForEmptyPayload ==
    \A r \in TReqs : pc[r] = "uploading" => uploadBody[r] = "audio-bytes"

\* C3: a request none of whose status fetches observed a terminal status (each
\* fetch returned a non-terminal snapshot) performs exactly 20 fetches and then
\* fails with the polling-timeout error; no request ever performs more than 20.
C3_TimeoutAfterExactly20Fetches ==
    \A r \in TReqs :
        /\ calls[r].fetch <= 20
        /\ (/\ pc[r] \in {"inserting", "done"}
            /\ calls[r].wait > 0
            /\ observed[r].status = "none"
            /\ failedCall[r] # "fetch")
           => /\ calls[r].fetch = 20
              /\ pc[r] = "done"
              /\ response[r] = TimedOutResponse
              /\ calls[r].insert = 0
C3_Witness ==
    \E r \in TReqs :
        /\ pc[r] = "done" /\ observed[r].status = "none" /\ failedCall[r] = "none"
        /\ calls[r].fetch = 20 /\ response[r] = TimedOutResponse

\* C4: once a fetch observed `failed` the request is over: it has answered 500
\* with the transcription-failed error, no wait was started after that fetch,
\* and no insert was issued or executed for it.
C4_FailedEndsPolling ==
    \A r \in TReqs :
        observed[r].status = "failed" =>
            /\ pc[r] = "done"
            /\ response[r] = FailedResponse
            /\ calls[r].wait = calls[r].fetch
            /\ calls[r].insert = 0
            /\ InsertsBy(r) = {}
            /\ calls[r].respond = 1
C4_Witness ==
    \E r \in TReqs :
        observed[r].status = "failed" /\ pc[r] = "done" /\ calls[r].fetch >= 2

\* C5: every record was inserted by a request whose job was observed
\* `completed`; a request that ended in failed, in the timeout or in an upload,
\* submission or fetch error never inserts.
C5_RecordsOnlyForCompleted ==
    /\ \A i \in 1..Len(inserted) : observed[inserted[i].by].status = "completed"
    /\ \A i \in 1..Len(store) : store[i].id \in 1..Len(inserted)
    /\ \A r \in TReqs :
          (\/ failedCall[r] \in {"upload", "create", "fetch"}
           \/ observed[r].status = "failed"
           \/ response[r] = TimedOutResponse)
          => calls[r].insert = 0 /\ InsertsBy(r) = {}
C5_Witness ==
    /\ Len(store) >= 1
    /\ \E r \in TReqs : response[r] = TimedOutResponse /\ calls[r].fetch = 20

\* C6 as stated, for the callers that send a non-empty audio file and for a
\* completed snapshot that carries a text: the request ends with the text
\* inserted exactly once and returned as {transcription: text}.
C6_Original ==
    \A r \in TReqs :
        (/\ pc[r] = "done"
         /\ observed[r].status = "completed"
         /\ NonEmptyText(observed[r].text)) =>
            /\ response[r] = [status |-> 200, error |-> NULL,
                              transcription |-> observed[r].text, text |-> NULL]
            /\ Cardinality(InsertsBy(r)) = 1
\* C6 as amended: for the callers that send a non-empty audio file, a request
\* whose fetch observed `completed` with a text puts that text in exactly one
\* insert call and ends with the text stored once and returned as
\* {transcription: text}, unless the store reports a failure of the insert:
\* then nothing is stored for the request and it is answered 500.
C6_CompletedInsertedOnceWhenStored ==
    \A r \in TReqs :
        (observed[r].status = "completed" /\ NonEmptyText(observed[r].text)) =>
            /\ pc[r] \in {"inserting", "done"}
            /\ calls[r].insert = 1
            /\ Cardinality(InsertsBy(r)) <= 1
            /\ \A i \in InsertsBy(r) : inserted[i].transcription = observed[r].text
            /\ pc[r] = "inserting" =>
                  /\ insertRow[r].transcription = observed[r].text
                  /\ InsertsBy(r) # {} <=> insertReply[r] = NULL
            /\ (pc[r] = "done" /\ failedCall[r] # "insert") =>
                  /\ response[r] = [status |-> 200, error |-> NULL,
                                    transcription |-> observed[r].text, text |-> NULL]
                  /\ Cardinality(InsertsBy(r)) = 1
            /\ (pc[r] = "done" /\ failedCall[r] = "insert") =>
                  /\ response[r].status = 500
                  /\ InsertsBy(r) = {}
\* both outcomes happened: one request stored and returned its text after three
\* fetches, the insert of the other failed
C6_Witness ==
    \E r, q \in TReqs :
        /\ pc[r] = "done" /\ calls[r].fetch = 3
        /\ response[r] = [status |-> 200, error |-> NULL, transcription |-> "hello world",
                          text |-> NULL]
        /\ \E i \in 1..Len(store) :
              store[i].transcription = "hello world" /\ inserted[store[i].id].by = r
        /\ pc[q] = "done" /\ failedCall[q] = "insert"
        /\ observed[q] = [status |-> "completed", text |-> "hello world"]
        /\ response[q].status = 500 /\ InsertsBy(q) = {}

\* C7: when the insert fails the answer is a 500 with an error message and
\* without the text; a success answer is sent only once the insert succeeded.
C7_InsertFailureIsFailure ==
    \A r \in TReqs :
        /\ failedCall[r] = "insert" => InsertsBy(r) = {}
        /\ (failedCall[r] = "insert" /\ pc[r] = "done") =>
              /\ response[r].status = 500
              /\ NonEmptyText(response[r].error)
              /\ response[r].transcription = NULL
              /\ InsertsBy(r) = {}
        /\ response[r].status = 200 =>
              /\ failedCall[r] = "none"
              /\ Cardinality(InsertsBy(r)) = 1
C7_Witness ==
    \E r \in TReqs :
        /\ failedCall[r] = "insert" /\ pc[r] = "done"
        /\ observed[r] = [status |-> "completed", text |-> "hello world"]

\* C8: a failed upload, job creation or status fetch ends the request at that
\* call: the call is not issued again, no later call is issued, nothing is
\* inserted, and the answer is a 500 without a transcript.
C8_FailureAborts ==
    \A r \in TReqs :
        /\ calls[r].upload <= 1 /\ calls[r].create <= 1
        /\ failedCall[r] \in {"upload", "create", "fetch"} =>
              /\ pc[r] = "done"
              /\ response[r].status = 500
              /\ response[r].transcription = NULL
              /\ calls[r].respond = 1
              /\ calls[r].insert = 0
              /\ InsertsBy(r) = {}
        /\ failedCall[r] = "upload" =>
              calls[r].create = 0 /\ calls[r].wait = 0 /\ calls[r].fetch = 0
        /\ failedCall[r] = "create" =>
              calls[r].wait = 0 /\ calls[r].fetch = 0
        /\ failedCall[r] = "fetch" =>
              calls[r].wait = calls[r].fetch
C8_Witness ==
    \E r1, r2 \in TReqs :
        /\ failedCall[r1] = "create" /\ pc[r1] = "done"
        /\ failedCall[r2] = "fetch" /\ pc[r2] = "done" /\ calls[r2].fetch = 2

\* C9: the store's answer to a successful select of GET /transcriptions holds
\* exactly the records of the store, newest creation timestamp first, whatever
\* the order in which the inserts were executed; the handler sends that answer.
C9_ListNewestFirst ==
    [][\A c \in CReqs :
          /\ ListExec(c, TRUE) =>
                LET d == crudReply'[c].data IN
                /\ Len(d) = Len(store)
                /\ {d[i] : i \in 1..Len(d)} = {store[i] : i \in 1..Len(store)}
                /\ \A i, j \in 1..Len(d) : i < j => d[i].created_at >= d[j].created_at
          /\ (List(c) /\ crudReply[c].error = NULL) =>
                crudResponse'[c] = [status |-> 200, error |-> NULL, message |-> NULL,
                                    data |-> crudReply[c].data, text |-> NULL]]_vars
\* two records whose insert order is the reverse of their timestamps are listed
C9_Witness ==
    \E c \in CReqs :
        /\ crudPc[c] = "done" /\ crudOp[c] = "list" /\ crudResponse[c].status = 200
        /\ Len(crudResponse[c].data) = 2
        /\ crudResponse[c].data[1].id < crudResponse[c].data[2].id
        /\ crudResponse[c].data[1].created_at > crudResponse[c].data[2].created_at

\* a DELETE /transcriptions that was answered with success
DeletedAll(c) ==
    crudPc[c] = "done" /\ crudOp[c] = "deleteAll" /\ crudResponse[c].status = 200
\* C10 as stated: when DELETE /transcriptions responds with success the store
\* holds no record, and a GET /transcriptions that arrives after that response
\* returns an empty sequence.
C10_Original ==
    [][\A c \in CReqs :
          /\ (DeleteAll(c) /\ crudReply[c].error = NULL) => store' = <<>>
          /\ (crudAfter[c] /\ ListExec(c, TRUE)) => crudReply'[c].data = <<>>]_vars
\* C10 as amended: the store holds no record once it has executed the delete
\* of DELETE /transcriptions, which is then answered with success; an empty
\* store gets a record only by executing the insert of a /transcribe request,
\* and a GET /transcriptions whose select is executed on the empty store
\* returns an empty sequence.
C10_DeleteAllThenList ==
    [][\A c \in CReqs :
          /\ DeleteAllExec(c, TRUE) => store' = <<>> /\ crudReply'[c].error = NULL
          /\ (DeleteAll(c) /\ crudReply[c].error = NULL) => DeletedAll(c)'
          /\ (store = <<>> /\ store' # <<>>) => Len(inserted') = Len(inserted) + 1
          /\ (ListExec(c, TRUE) /\ store = <<>>) => crudReply'[c].data = <<>>
          /\ (List(c) /\ crudReply[c] = [error |-> NULL, data |-> <<>>]) =>
                crudResponse'[c].status = 200 /\ crudResponse'[c].data = <<>>]_vars
\* two records were stored, all were deleted, and a list that arrived after
\* the delete's response came back empty
C10_Witness ==
    \E c, b \in CReqs :
        /\ DeletedAll(c) /\ crudAfter[b]
        /\ crudPc[b] = "done" /\ crudOp[b] = "list"
        /\ crudResponse[b].status = 200 /\ crudResponse[b].data = <<>>
        /\ Len(inserted) = 2 /\ store = <<>>

\* C11: DELETE /transcriptions/:id with an id that matches no record succeeds
\* and leaves the store unchanged; a delete the store executes leaves the other
\* records in place and no record with that id, so deleting it again changes
\* nothing.
C11_DeleteOneIdempotent ==
    [][\A c \in CReqs :
          /\ DeleteOneExec(c, TRUE) =>
                LET id == crudId[c] IN
                /\ crudReply'[c].error = NULL
                /\ (\A i \in 1..Len(store) : store[i].id # id) => store' = store
                /\ store' = SelectSeq(store, LAMBDA rec : rec.id # id)
                /\ SelectSeq(store', LAMBDA rec : rec.id # id) = store'
          /\ (DeleteOne(c) /\ crudReply[c].error = NULL) =>
                /\ crudResponse'[c].status = 200
                /\ store' = store]_vars
\* two deletes of the same id, which no record has, succeeded and every record
\* ever inserted is still stored
C11_Witness ==
    /\ \A c \in CReqs :
          crudPc[c] = "done" /\ crudOp[c] = "deleteOne" /\ crudResponse[c].status = 200
    /\ crudId[1] = crudId[2]
    /\ Len(store) = Len(inserted) /\ Len(store) = 2

\* C12: when one of the three required configuration values is absent the
\* process never listens: no request is served and no remote call is made.
C12_NoServiceWithoutConfig ==
    (\E k \in EnvKeys : env[k] = NULL) =>
        /\ proc # "listening"
        /\ \A r \in TReqs : pc[r] = "idle" /\ calls[r] = NoCalls
        /\ \A c \in CReqs : crudPc[c] = "idle" /\ crudOp[c] = "none"
        /\ store = <<>> /\ inserted = <<>>
C12_Witness ==
    /\ proc = "exited"
    /\ env["ASSEMBLYAI_API_KEY"] = "value"
    /\ env["SUPABASE_URL"] = NULL
    /\ env["SUPABASE_ANON_KEY"] = "value"

\* C13: the waits started by a request equal its fetches or exceed them by one
\* (exactly while it waits); no fetch is issued before the first wait, which
\* starts in the step in which the job creation succeeded.
C13_WaitBeforeEveryFetch ==
    \A r \in TReqs :
        /\ calls[r].wait - calls[r].fetch \in {0, 1}
        /\ pc[r] = "waiting" <=> calls[r].wait = calls[r].fetch + 1
        /\ pc[r] = "fetching" => calls[r].fetch >= 1
        /\ pc[r] \in {"idle", "receiving", "uploading", "creating"} =>
              calls[r].wait = 0 /\ calls[r].fetch = 0
        /\ (calls[r].create = 1 /\ pc[r] # "creating" /\ failedCall[r] # "create") =>
              calls[r].wait >= 1
C13_Witness ==
    \E r \in TReqs : pc[r] = "waiting" /\ calls[r].wait = 3 /\ calls[r].fetch = 2

\* C14: a request ends with the polling-timeout error only after 20 fetches
\* none of which observed a terminal status.
C14_TimeoutOnlyAfter20NonTerminal ==
    \A r \in TReqs :
        response[r] = TimedOutResponse =>
            calls[r].fetch = 20 /\ observed[r].status = "none"

\* C15: the workflow moves only along idle, receiving, uploading, creating, (waiting,
\* fetching)*, inserting, done; once a terminal status was observed or the 20th
\* fetch returned no wait or fetch follows; done is final and a request sends
\* one response, in the step that ends it.
PollingOver(r) ==
    \/ observed[r].status \in {"completed", "failed"}
    \/ calls[r].fetch = 20 /\ pc[r] # "fetching"
Transitions ==
    {<<"idle", "receiving">>, <<"idle", "done">>, <<"receiving", "uploading">>,
     <<"receiving", "done">>, <<"uploading", "creating">>,
     <<"uploading", "done">>, <<"creating", "waiting">>, <<"creating", "done">>,
     <<"waiting", "fetching">>, <<"fetching", "waiting">>, <<"fetching", "inserting">>,
     <<"fetching", "done">>, <<"inserting", "done">>}
C15_NoStepAfterTerminal ==
    [][\A r \in TReqs :
          /\ PollingOver(r) =>
                /\ calls'[r].wait = calls[r].wait
                /\ calls'[r].fetch = calls[r].fetch
                /\ pc'[r] \notin {"waiting", "fetching"}
          /\ pc[r] = "done" => pc'[r] = "done" /\ response'[r] = response[r]
          /\ pc'[r] # pc[r] => <<pc[r], pc'[r]>> \in Transitions
          /\ calls'[r].respond = IF pc'[r] = "done" THEN 1 ELSE 0
          /\ pc'[r] = "done" <=> response'[r].status # 0]_vars
C15_Witness ==
    \E r \in TReqs :
        /\ pc[r] = "done" /\ calls[r].respond = 1 /\ response[r].status = 200
        /\ observed[r].status = "completed" /\ calls[r].fetch = 2

\* C16: every fetch in flight names the job its own request created, and a
\* step of one request changes no local state of another request.
Local(r) ==
    <<pc[r], transcriptId[r], attempts[r], transcriptResult[r], fetchUrl[r],
      insertRow[r], insertReply[r], response[r], calls[r], observed[r],
      failedCall[r]>>
C16_RequestsAreIsolated ==
    [][\A r \in TReqs :
          /\ pc'[r] = "fetching" =>
                /\ fetchUrl'[r] = JobIdOf(r)
                /\ \A q \in TReqs : q # r => fetchUrl'[r] # JobIdOf(q)
          /\ attempts'[r] \in {attempts[r], attempts[r] + 1}
          /\ Local(r)' # Local(r) =>
                \A q \in TReqs : q # r => Local(q)' = Local(q)]_vars
C16_Witness ==
    \E r, q \in TReqs :
        /\ pc[r] = "fetching" /\ pc[q] = "fetching"
        /\ attempts[r] = 0 /\ attempts[q] = 2
        /\ fetchUrl[r] # fetchUrl[q]

\* C17: while a request is suspended in its wait or in a remote call no code
\* of it holds the thread; while one request stays in its wait, every other
\* /transcribe request whose handler was entered runs to its response and every
\* list or delete request is answered, with the first request still waiting.
Suspended(r) == pc[r] \in {"uploading", "creating", "waiting", "fetching", "inserting"}
Entered(q) == pc[q] \notin {"idle", "receiving"}
Waits == pc[Stalled] = "waiting"
C17_OthersProgressDuringWait ==
    /\ [](\A r \in TReqs : Suspended(r) => thread # r)
    /\ \A q \in TReqs \ {Stalled} :
          (Waits /\ Entered(q)) ~> (Waits /\ pc[q] = "done" /\ calls[q].respond = 1)
    /\ \A c \in CReqs :
          (Waits /\ crudPc[c] = "pending") ~> (Waits /\ crudPc[c] = "done")
\* one request is still in its first wait; the other, which arrived later, has
\* been through its whole workflow and a list has shown its record
C17_Witness ==
    \E q \in TReqs, c \in CReqs :
        /\ Waits /\ calls[Stalled].wait = 1 /\ calls[Stalled].fetch = 0
        /\ pc[q] = "done" /\ response[q].status = 200 /\ calls[q].fetch >= 2
        /\ crudPc[c] = "done" /\ crudOp[c] = "list" /\ Len(crudResponse[c].data) = 1

\* C18: after the caller disconnected no further wait, status fetch or store
\* insert is performed for the request.
C18_AbandonedOnDisconnect ==
    [][\A r \in TReqs :
          ~connected[r] =>
             /\ calls'[r].wait = calls[r].wait
             /\ calls'[r].fetch = calls[r].fetch
             /\ calls'[r].insert = calls[r].insert
             /\ Len(inserted') > Len(inserted) => inserted'[Len(inserted')].by # r]_vars

\* C19: every accepted /transcribe request, one whose handler has been entered,
\* eventually sends its response.
C19_EveryRequestResponds ==
    \A r \in TReqs :
        (pc[r] \notin {"idle", "receiving"}) ~> (pc[r] = "done" /\ calls[r].respond = 1)
\* a request whose 20 fetches all found the job unfinished has responded
C19_Witness ==
    \E r \in TReqs :
        /\ pc[r] = "done" /\ calls[r].respond = 1
        /\ calls[r].wait = 20 /\ attempts[r] = 20 /\ observed[r].status = "none"

\* C20: no record, and no insert in flight, carries an empty or absent text.
C20_NoEmptyTextStored ==
    /\ \A i \in 1..Len(store) : store[i].transcription \notin {NULL, ""}
    /\ \A i \in 1..Len(inserted) : inserted[i].transcription \notin {NULL, ""}
    /\ \A r \in TReqs :
          pc[r] = "inserting" => insertRow[r].transcription \notin {NULL, ""}
\* a completed snapshot with an empty text was observed, and a record is stored
C20_Witness ==
    /\ \E r \in TReqs : observed[r] = [status |-> "completed", text |-> ""] /\ pc[r] = "done"
    /\ Len(store) >= 1

====
